---- MODULE Spec2Model ----
(***************************************************************************)
(* A model of load_tester.py: LoadTester.run drives num_requests calls of  *)
(* LoadTester.send_request through a ThreadPoolExecutor of num_threads     *)
(* workers; the workers write the shared lists and dict of the LoadTester  *)
(* object; print_results reads them after the wait barrier.                *)
(*                                                                         *)
(* Threads interleave between the steps below.  list.append is one step    *)
(* (atomic in CPython).  The test `status_code in self.status_codes`, the  *)
(* read of the stored count and the store of the new count are separate    *)
(* steps: the code holds no lock over lines 48-51.                         *)
(***************************************************************************)
EXTENDS Integers, Sequences, FiniteSets, Bags, TLC

(* ------------------------------ bounds -------------------------------- *)
MaxThreads == 2
MaxRequests == 3
\* largest num_requests of the runs checked for liveness
MaxLiveRequests == 2
\* largest --requests of the runs started from main()
MaxCliRequests == 2
\* calls of run() on one LoadTester, and the largest num_requests then
MaxRuns == 2
\* largest num_requests of the runs checked for their progress lines
MaxProgressRequests == 21
MaxRerunRequests == 1

\* values of --interval tried (seconds, whole)
Intervals == {0, 1}
\* seconds a GET may take until its response has arrived
Elapsed == {1}
\* status codes the server may answer with
StatusCodes == {200, 500}
\* exceptions requests.get may raise; all are subclasses of Exception
Exceptions == {"Timeout", "ConnectionError"}

None == "None"
\* self.start_time, self.end_time: None is <<>>, a time t is <<t>>
NoTime == <<>>

VARIABLES
    num_threads, num_requests, interval,   \* self.num_threads, ... (line 28-30)
    response_times, status_codes, errors,  \* the shared aggregator (31-33)
    start_time, end_time,                  \* line 34-35
    pc, i,                                 \* run(): position and loop variable
    futures,                               \* run(): the list `futures`
    work_queue, threads, idle_semaphore,   \* the ThreadPoolExecutor
    now,                                   \* the clock datetime.now() reads
    attempts,                              \* GETs issued so far, per request id
    sleeps,                                \* number of time.sleep calls made
    stdout,                                \* lines printed
    response                               \* main(): the answer read by input()

vars == <<num_threads, num_requests, interval, response_times, status_codes,
          errors, start_time, end_time, pc, i, futures, work_queue, threads,
          idle_semaphore, now, attempts, sleeps, stdout, response>>

config == <<num_threads, num_requests, interval>>
aggregator == <<response_times, status_codes, errors>>
pool == <<work_queue, threads, idle_semaphore>>

(* ----------------------------- helpers -------------------------------- *)
\* the empty dict
EmptyDict == [c \in {} |-> 0]

\* d[k] = v on a dict
DictSet(d, k, v) == [c \in (DOMAIN d) \cup {k} |-> IF c = k THEN v ELSE d[c]]

\* str(e) of an exception
Str(e) ==
    CASE e = "Timeout" -> "Read timed out."
      [] e = "ConnectionError" -> "Connection refused"
      [] OTHER -> "error"

\* `except Exception` (line 59): the classes the handler catches
\* (faulty variant: `except requests.Timeout`)
HandlesOnlyTimeout(e) == e = "Timeout"
Handles(e) == e \in {"Timeout", "ConnectionError", "Exception"}

\* list.append (lines 45, 60)
\* (faulty variant: the append is lost)
AppendDropped(list, x) == list
ListAppend(list, x) == Append(list, x)

\* a thread that holds no work item
IdleThread == [pc |-> "idle", request_id |-> -1, response_time |-> 0,
               status_code |-> 0, count |-> 0, error |-> ""]

\* a pending future, as executor.submit creates it
NewFuture(id) == [id |-> id, state |-> "PENDING", result |-> <<>>, exception |-> None]

\* the pool's threads with thread th now in state r (threads carry no identity:
\* the pool is the bag of their states)
SetThread(th, r) == (threads (-) SetToBag({th})) (+) SetToBag({r})
SetFuture(id, f) == [futures EXCEPT ![id + 1] = f]

(* ------------------------------- Init --------------------------------- *)
Init ==
    /\ num_threads \in 1..MaxThreads
    /\ num_requests \in 0..MaxRequests
    /\ interval \in Intervals
    /\ response_times = <<>>
    /\ status_codes = EmptyDict
    /\ errors = <<>>
    /\ start_time = NoTime
    /\ end_time = NoTime
    /\ pc = "run"
    /\ i = -1
    /\ futures = <<>>
    /\ work_queue = <<>>
    /\ threads = EmptyBag
    /\ idle_semaphore = 0
    /\ now = 0
    /\ attempts = [id \in 0..(num_requests - 1) |-> 0]
    /\ sleeps = 0
    /\ stdout = <<>>
    /\ response = None

(* -------------------------- the worker threads ------------------------ *)
\* _worker: work_queue.get(); the future goes RUNNING
Take(th) ==
    /\ th.pc = "idle"
    /\ work_queue # <<>>
    /\ LET id == Head(work_queue) IN
        /\ threads' = SetThread(th, [IdleThread EXCEPT !.pc = "run", !.request_id = id])
        /\ futures' = SetFuture(id, [futures[id + 1] EXCEPT !.state = "RUNNING"])
    /\ work_queue' = Tail(work_queue)
    /\ UNCHANGED <<response, config, now, aggregator, start_time, end_time, pc, i, idle_semaphore,
                   attempts, sleeps, stdout>>

\* send_request line 40-41: start = time.time(); requests.get is issued
Begin(th) ==
    /\ th.pc = "run"
    /\ threads' = SetThread(th, [th EXCEPT !.pc = "get"])
    /\ attempts' = [attempts EXCEPT ![th.request_id] = @ + 1]
    /\ UNCHANGED <<response, config, now, aggregator, start_time, end_time, pc, i, futures,
                   work_queue, idle_semaphore, sleeps, stdout>>

\* line 41-47: the response arrives with status code c after d seconds
\* (end - start, both read from time.time()); the elapsed time is appended to
\* response_times; status_code = response.status_code
Respond(th, c, d) ==
    /\ th.pc = "get"
    /\ response_times' = ListAppend(response_times, d)
    /\ threads' = SetThread(th, [th EXCEPT !.pc = "check",
                                   !.response_time = d, !.status_code = c])
    /\ UNCHANGED <<response, config, now, status_codes, errors, start_time, end_time, pc, i,
                   futures, work_queue, idle_semaphore, attempts, sleeps, stdout>>

\* line 41, 59-60: requests.get raises e.  The handler appends str(e) to errors;
\* an exception the handler does not catch leaves send_request and is stored in
\* the future by the pool's work item.
Raise(th, e) ==
    /\ th.pc = "get"
    /\ IF Handles(e)
       THEN /\ errors' = ListAppend(errors, Str(e))
            /\ threads' = SetThread(th, [th EXCEPT !.pc = "ret", !.error = Str(e)])
            /\ UNCHANGED <<futures, idle_semaphore>>
       ELSE /\ futures' = SetFuture(th.request_id,
                              [futures[th.request_id + 1] EXCEPT
                                   !.state = "FINISHED", !.exception = e])
            /\ threads' = SetThread(th, IdleThread)
            /\ idle_semaphore' = idle_semaphore + 1
            /\ UNCHANGED errors
    /\ UNCHANGED <<response, config, now, response_times, status_codes, start_time, end_time, pc, i,
                   work_queue, attempts, sleeps, stdout>>

\* line 48: if status_code in self.status_codes
CheckCode(th) ==
    /\ th.pc = "check"
    /\ threads' = SetThread(th, [th EXCEPT !.pc =
                        IF th.status_code \in DOMAIN status_codes
                        THEN "load" ELSE "set"])
    /\ UNCHANGED <<response, config, now, aggregator, start_time, end_time, pc, i, futures,
                   work_queue, idle_semaphore, attempts, sleeps, stdout>>

\* line 49, first half: the stored count is read
LoadCount(th) ==
    /\ th.pc = "load"
    /\ threads' = SetThread(th, [th EXCEPT !.pc = "store",
                                   !.count = status_codes[th.status_code]])
    /\ UNCHANGED <<response, config, now, aggregator, start_time, end_time, pc, i, futures,
                   work_queue, idle_semaphore, attempts, sleeps, stdout>>

\* line 49: += 1 (faulty variant: += 2)
IncrementedTwice(count) == count + 2
Incremented(count) == count + 1

\* line 49, second half: the count read, plus one, is stored
StoreCount(th) ==
    /\ th.pc = "store"
    /\ status_codes' = DictSet(status_codes, th.status_code, Incremented(th.count))
    /\ threads' = SetThread(th, [th EXCEPT !.pc = "ret", !.count = 0])
    /\ UNCHANGED <<response, config, now, response_times, errors, start_time, end_time, pc, i, futures,
                   work_queue, idle_semaphore, attempts, sleeps, stdout>>

\* line 51: self.status_codes[status_code] = 1
SetOne(th) ==
    /\ th.pc = "set"
    /\ status_codes' = DictSet(status_codes, th.status_code, 1)
    /\ threads' = SetThread(th, [th EXCEPT !.pc = "ret"])
    /\ UNCHANGED <<response, config, now, response_times, errors, start_time, end_time, pc, i, futures,
                   work_queue, idle_semaphore, attempts, sleeps, stdout>>

\* the dict send_request returns (lines 53-58, 61-65)
ResultOf(th) ==
    IF th.error = ""
    THEN [id |-> th.request_id, status_code |-> th.status_code,
          response_time |-> th.response_time, success |-> TRUE]
    ELSE [id |-> th.request_id, error |-> th.error, success |-> FALSE]

\* line 53 / 61: send_request returns; the future gets the result and the
\* thread goes back to the queue
Return(th) ==
    /\ th.pc = "ret"
    /\ futures' = SetFuture(th.request_id,
                      [futures[th.request_id + 1] EXCEPT
                           !.state = "FINISHED", !.result = ResultOf(th)])
    /\ threads' = SetThread(th, IdleThread)
    /\ idle_semaphore' = idle_semaphore + 1
    /\ UNCHANGED <<response, config, now, aggregator, start_time, end_time, pc, i, work_queue,
                   attempts, sleeps, stdout>>

(* --------------------------- print_results ---------------------------- *)
RECURSIVE SeqSum(_)
SeqSum(s) == IF s = <<>> THEN 0 ELSE Head(s) + SeqSum(Tail(s))

RECURSIVE SeqSumSq(_)
SeqSumSq(s) == IF s = <<>> THEN 0 ELSE Head(s) * Head(s) + SeqSumSq(Tail(s))

\* min(), max() of a non-empty list
SeqMin(s) == CHOOSE x \in {s[k] : k \in DOMAIN s} : \A k \in DOMAIN s : x <= s[k]
SeqMax(s) == CHOOSE x \in {s[k] : k \in DOMAIN s} : \A k \in DOMAIN s : x >= s[k]

\* num/den rounded to the nearest integer, halves to even (the rounding of
\* the format specs .1f, .2f and .4f); num >= 0, den > 0
Round(num, den) ==
    LET q == num \div den
        r == num % den
    IN  IF 2 * r < den THEN q
        ELSE IF 2 * r > den THEN q + 1
        ELSE IF q % 2 = 0 THEN q ELSE q + 1

\* x put into an ascending list, after the entries equal to it
RECURSIVE InsertAsc(_, _)
InsertAsc(s, x) ==
    IF s = <<>> THEN <<x>>
    ELSE IF x < Head(s) THEN <<x>> \o s
    ELSE <<Head(s)>> \o InsertAsc(Tail(s), x)

\* sorted(list)
RECURSIVE Sorted(_)
Sorted(s) == IF s = <<>> THEN <<>> ELSE InsertAsc(Sorted(SubSeq(s, 1, Len(s) - 1)), s[Len(s)])

\* statistics.median, in ten-thousandths
Median10000(s) ==
    LET o == Sorted(s)
        n == Len(s)
    IN  IF n % 2 = 1 THEN o[(n + 1) \div 2] * 10000
        ELSE (o[n \div 2] + o[n \div 2 + 1]) * 5000

\* sorted(self.status_codes.items()): the codes in ascending order
RECURSIVE SortedCodes(_)
SortedCodes(S) ==
    IF S = {} THEN <<>>
    ELSE LET m == CHOOSE x \in S : \A y \in S : x <= y
         IN  <<m>> \o SortedCodes(S \ {m})

\* lines 124-129: error_counts; its keys in insertion order (the order of the
\* first occurrence in errors) and its values
RECURSIVE ErrorKeys(_)
ErrorKeys(es) ==
    IF es = <<>> THEN <<>>
    ELSE LET front == ErrorKeys(SubSeq(es, 1, Len(es) - 1))
             last == es[Len(es)]
         IN  IF \E k \in DOMAIN front : front[k] = last THEN front
             ELSE Append(front, last)

ErrorCount(es, m) == Cardinality({k \in DOMAIN es : es[k] = m})

\* line 131: sorted(items, key=count, reverse=True); the sort is stable, so
\* items of equal count keep their insertion order
RECURSIVE InsertDesc(_, _)
InsertDesc(s, item) ==
    IF s = <<>> THEN <<item>>
    ELSE IF item[2] > Head(s)[2] THEN <<item>> \o s
    ELSE <<Head(s)>> \o InsertDesc(Tail(s), item)

RECURSIVE SortedByCountDesc(_)
SortedByCountDesc(items) ==
    IF items = <<>> THEN <<>>
    ELSE InsertDesc(SortedByCountDesc(SubSeq(items, 1, Len(items) - 1)),
                    items[Len(items)])

ErrorItems(es) ==
    LET keys == ErrorKeys(es)
    IN  SortedByCountDesc([k \in DOMAIN keys |-> <<keys[k], ErrorCount(es, keys[k])>>])

NoSuccessLine == <<"No successful requests were made.">>

\* line 95: if not self.response_times
\* (faulty variants: the test is missing; the test also asks for no errors)
NeverEmpty(rt) == FALSE
NoOutcomeAtAll(rt) == rt = <<>> /\ errors = <<>>
NoResponseTimes(rt) == rt = <<>>

\* line 107: the failed-request count printed
\* (faulty variant: off by one)
FailedPlusOne(es) == Len(es) + 1
FailedCount(es) == Len(es)

\* lines 99-107
SummaryLines ==
    LET duration == end_time[1] - start_time[1]
    IN  << <<"Load Test Results:">>,
           <<"Test Duration", duration * 100>>,
           <<"Requests Per Second", Round(num_requests * 100, duration)>>,
           <<"Total Requests", num_requests>>,
           <<"Successful Requests", Len(response_times)>>,
           <<"Failed Requests", FailedCount(errors)>> >>

\* lines 109-116 (line 109 tests response_times once more); Std Dev is
\* recorded as the sample variance (numerator, denominator) whose root is
\* printed
StatisticsLines ==
    LET n == Len(response_times)
        sum == SeqSum(response_times)
    IN  IF response_times # <<>>
        THEN << <<"Response Time Statistics (seconds):">>,
                <<"Min", SeqMin(response_times) * 10000>>,
                <<"Max", SeqMax(response_times) * 10000>>,
                <<"Mean", Round(sum * 10000, n)>>,
                <<"Median", Median10000(response_times)>> >>
             \o (IF n > 1
                 THEN << <<"Std Dev", n * SeqSumSq(response_times) - sum * sum,
                           n * (n - 1)>> >>
                 ELSE <<>>)
        ELSE <<>>

\* line 120: count/self.num_requests*100 printed with one decimal, in tenths
\* of a percent (faulty variant: times 1000)
PercentTimesTen(count, total) == Round(count * 10000, total)
Percent(count, total) == Round(count * 1000, total)

\* lines 118-120: code, count and percentage of num_requests in tenths
StatusLines ==
    LET codes == SortedCodes(DOMAIN status_codes)
    IN  << <<"Status Code Distribution:">> >>
        \o [k \in DOMAIN codes |->
               <<"Status", codes[k], status_codes[codes[k]],
                 Percent(status_codes[codes[k]], num_requests)>>]

\* lines 122-132
ErrorLines ==
    IF errors # <<>>
    THEN LET items == ErrorItems(errors)
         IN  << <<"Error Types", Len(errors)>> >>
             \o [k \in DOMAIN items |-> <<"Error", items[k][1], items[k][2]>>]
    ELSE <<>>

\* what print_results prints
ReportLines ==
    IF NoResponseTimes(response_times) THEN <<NoSuccessLine>>
    ELSE SummaryLines \o StatisticsLines \o StatusLines \o ErrorLines

(* -------------------------------- run --------------------------------- *)
Separator == <<"================">>

\* lines 69-73: the header is printed, start_time is taken
RunStart ==
    /\ pc = "run"
    /\ stdout' = stdout \o << <<"Starting load test">>,
                              <<"Threads, Requests, Interval", num_threads,
                                num_requests, interval>>,
                              Separator >>
    /\ start_time' = <<now>>
    /\ pc' = "for"
    /\ now' = now + 1
    /\ UNCHANGED <<response, config, aggregator, end_time, i, futures, pool, attempts, sleeps>>

\* line 77: range(self.num_requests) has a value after i
\* (faulty variant: range(self.num_requests + 1))
RangeOneMore(cur, n) == cur + 1 < n + 1
RangeHasNext(cur, n) == cur + 1 < n

\* ThreadPoolExecutor._adjust_thread_count: a thread is started only while
\* fewer than max_workers exist
\* (faulty variants: no limit; the comparison reversed)
SpawnAlways(count, max_workers) == TRUE
SpawnReversed(count, max_workers) == count > max_workers
MaySpawn(count, max_workers) == count < max_workers

\* line 78: executor.submit puts the work item at the tail of the pool's queue
\* (faulty variant: at its head)
QueuePutFront(queue, item) == <<item>> \o queue
QueuePut(queue, item) == Append(queue, item)

\* lines 77-78: the next i; executor.submit queues the work item, appends its
\* future, and starts a worker thread unless an idle one is claimed
Submit ==
    /\ pc = "for"
    /\ RangeHasNext(i, num_requests)
    /\ i' = i + 1
    /\ futures' = Append(futures, NewFuture(i + 1))
    /\ work_queue' = QueuePut(work_queue, i + 1)
    /\ IF idle_semaphore > 0
       THEN /\ idle_semaphore' = idle_semaphore - 1
            /\ UNCHANGED threads
       ELSE /\ threads' = IF MaySpawn(BagCardinality(threads), num_threads)
                          THEN threads (+) SetToBag({IdleThread}) ELSE threads
            /\ UNCHANGED idle_semaphore
    /\ pc' = "sleep"
    /\ now' = now + 1
    /\ UNCHANGED <<response, config, aggregator, start_time, end_time, attempts, sleeps, stdout>>

\* line 79: time.sleep(self.interval)
Sleep ==
    /\ pc = "sleep"
    /\ sleeps' = sleeps + 1
    /\ now' = now + 1 + interval
    /\ pc' = "progress"
    /\ UNCHANGED <<response, config, aggregator, start_time, end_time, i, futures, pool,
                   attempts, stdout>>

\* line 82: the number of submissions between two progress lines
ProgressEvery == 10

\* line 82: (i + 1) % 10 == 0 or i + 1 == self.num_requests, with k = i + 1
\* (faulty variant: i % 10 == 0)
ProgressDueOffByOne(k, n) == (k - 1) % ProgressEvery = 0 \/ k = n
ProgressDue(k, n) == k % ProgressEvery = 0 \/ k = n

\* lines 82-84
Progress ==
    /\ pc = "progress"
    /\ stdout' = IF ProgressDue(i + 1, num_requests)
                 THEN Append(stdout, <<"Progress", i + 1, num_requests>>)
                 ELSE stdout
    /\ pc' = "for"
    /\ now' = now + 1
    /\ UNCHANGED <<response, config, aggregator, start_time, end_time, i, futures, pool,
                   attempts, sleeps>>

\* line 77: the range is exhausted
LoopExit ==
    /\ pc = "for"
    /\ ~RangeHasNext(i, num_requests)
    /\ pc' = "wait"
    /\ now' = now + 1
    /\ UNCHANGED <<response, config, aggregator, start_time, end_time, i, futures, pool,
                   attempts, sleeps, stdout>>

\* concurrent.futures.wait(futures): every future is done
\* (faulty variant: a running future counts as done)
DoneOrRunning(fs) == \A k \in DOMAIN fs : fs[k].state # "PENDING"
AllDone(fs) == \A k \in DOMAIN fs : fs[k].state = "FINISHED"

\* lines 87-88: wait(futures) returns, and the with block is left
\* (executor.shutdown(wait=True), which joins the worker threads: they have
\* no work item left once every future is done)
WaitBarrier ==
    /\ pc = "wait"
    /\ AllDone(futures)
    /\ pc' = "end"
    /\ now' = now + 1
    /\ UNCHANGED <<response, config, aggregator, start_time, end_time, i, futures, pool,
                   attempts, sleeps, stdout>>

\* lines 89-90
RunEnd ==
    /\ pc = "end"
    /\ end_time' = <<now>>
    /\ stdout' = Append(stdout, Separator)
    /\ pc' = "print"
    /\ now' = now + 1
    /\ UNCHANGED <<response, config, aggregator, start_time, i, futures, pool, attempts, sleeps>>

\* line 91: self.print_results()
PrintResults ==
    /\ pc = "print"
    /\ stdout' = stdout \o ReportLines
    /\ pc' = "done"
    /\ now' = now + 1
    /\ UNCHANGED <<response, config, aggregator, start_time, end_time, i, futures, pool,
                   attempts, sleeps>>

(* ------------------------------- Next --------------------------------- *)
MainStep ==
    \/ RunStart
    \/ Submit
    \/ Sleep
    \/ Progress
    \/ LoopExit
    \/ WaitBarrier
    \/ RunEnd
    \/ PrintResults

WorkerStep ==
    \/ \E th \in BagToSet(threads) : Take(th)
    \/ \E th \in BagToSet(threads) : Begin(th)
    \/ \E th \in BagToSet(threads), c \in StatusCodes, d \in Elapsed : Respond(th, c, d)
    \/ \E th \in BagToSet(threads), e \in Exceptions : Raise(th, e)
    \/ \E th \in BagToSet(threads) : CheckCode(th)
    \/ \E th \in BagToSet(threads) : LoadCount(th)
    \/ \E th \in BagToSet(threads) : StoreCount(th)
    \/ \E th \in BagToSet(threads) : SetOne(th)
    \/ \E th \in BagToSet(threads) : Return(th)

Next == MainStep \/ WorkerStep

Spec == Init /\ [][Next]_vars

(* ------------------------------- main --------------------------------- *)
\* line 145: the number of threads above which main() asks
HighThreads == 50

\* values of --threads tried from main()
CliThreads == {1, HighThreads, HighThreads + 1}

\* lines the user may type at the prompt
Answers == {"y", "Y", "n", "yes", ""}

\* str.lower() on these lines
Lower(line) ==
    CASE line = "Y" -> "y"
      [] OTHER -> line

\* line 148: response.lower() != 'y' is False
\* (faulty variant: everything but "n" lets the run go on)
AffirmativeUnlessNo(line) == Lower(line) # "n"
Affirmative(line) == Lower(line) = "y"

\* main() after parse_args (lines 136-142): nothing is printed or built yet;
\* num_threads, num_requests and interval hold args.threads, args.requests
\* and args.interval, which lines 152-157 hand to the LoadTester unchanged
CliInit ==
    /\ num_threads \in CliThreads
    /\ num_requests \in 0..MaxCliRequests
    /\ interval \in Intervals
    /\ response_times = <<>>
    /\ status_codes = EmptyDict
    /\ errors = <<>>
    /\ start_time = NoTime
    /\ end_time = NoTime
    /\ pc = "main"
    /\ i = -1
    /\ futures = <<>>
    /\ work_queue = <<>>
    /\ threads = EmptyBag
    /\ idle_semaphore = 0
    /\ now = 0
    /\ attempts = [id \in 0..(num_requests - 1) |-> 0]
    /\ sleeps = 0
    /\ stdout = <<>>
    /\ response = None

WarningLine == <<"WARNING: Using a high number of threads may cause excessive load.">>
PromptLine == <<"Do you want to continue? (y/n): ">>
AbortLine == <<"Load test aborted.">>

\* lines 145-146, 152-159: with many threads the warning is printed and the
\* prompt is next; otherwise the LoadTester is built and run() is called
Gate ==
    /\ pc = "main"
    /\ IF num_threads > HighThreads
       THEN /\ stdout' = Append(stdout, WarningLine)
            /\ pc' = "prompt"
       ELSE /\ pc' = "run"
            /\ UNCHANGED stdout
    /\ UNCHANGED <<response, config, aggregator, start_time, end_time, i, futures,
                   pool, now, attempts, sleeps>>

\* lines 147-159: input() prints the prompt and reads a line; anything but
\* y or Y prints the abort message and main() returns; otherwise the
\* LoadTester is built and run() is called
Prompt(line) ==
    /\ pc = "prompt"
    /\ response' = line
    /\ IF Affirmative(line)
       THEN /\ stdout' = Append(stdout, PromptLine)
            /\ pc' = "run"
       ELSE /\ stdout' = stdout \o <<PromptLine, AbortLine>>
            /\ pc' = "aborted"
    /\ UNCHANGED <<config, aggregator, start_time, end_time, i, futures,
                   pool, now, attempts, sleeps>>

CliNext ==
    \/ Gate
    \/ \E line \in Answers : Prompt(line)
    \/ Next

CliSpec == CliInit /\ [][CliNext]_vars

(* ====================== properties of the run ========================= *)
\* run() has passed concurrent.futures.wait and left the with block
PastBarrier == pc \in {"end", "print", "done"}

\* the futures whose request failed / was answered
FailedIds ==
    {f.id : f \in {futures[k] : k \in {j \in DOMAIN futures :
         futures[j].state = "FINISHED"
         /\ (futures[j].exception # None \/ ~futures[j].result.success)}}}
AnsweredIds ==
    {f.id : f \in {futures[k] : k \in {j \in DOMAIN futures :
         futures[j].state = "FINISHED" /\ futures[j].exception = None
         /\ futures[j].result.success}}}
AnsweredWith(c) ==
    {id \in AnsweredIds : futures[id + 1].result.status_code = c}

\* the threads inside send_request
InFlight == {th \in BagToSet(threads) : th.pc \notin {"idle", "run"}}
NumInFlight == BagCardinality([th \in InFlight |-> CopiesIn(th, threads)])

\* the count stored for code c, 0 when the dict has no such key
Stored(c) == IF c \in DOMAIN status_codes THEN status_codes[c] ELSE 0

\* C1: once run() has passed its wait barrier, len(response_times) +
\* len(errors) = num_requests; len(errors) is the number of requests that
\* failed and len(response_times) the number of the others.
C1_CountConservation ==
    PastBarrier =>
        /\ Len(response_times) + Len(errors) = num_requests
        /\ Len(errors) = Cardinality(FailedIds)
        /\ Len(response_times) = num_requests - Cardinality(FailedIds)

C1_Witness ==
    /\ pc = "done"
    /\ num_requests = 3
    /\ num_threads = 2
    /\ FailedIds = {1}
    /\ Len(errors) = 1
    /\ Len(response_times) = 2

\* C2: after the wait barrier status_codes[c] is the number of requests that
\* received status code c, for every code c (no update is lost or doubled).
C2_NoLostUpdate ==
    PastBarrier => \A c \in StatusCodes : Stored(c) = Cardinality(AnsweredWith(c))

\* C3: at most num_threads requests are in flight, in every state.
C3_InFlightBounded == NumInFlight <= num_threads

\* the pool is saturated while submitted tasks wait in its queue, interval = 0
C3_Witness ==
    /\ interval = 0
    /\ num_threads = 2
    /\ NumInFlight = 2
    /\ work_queue # <<>>

\* C4: end_time is taken and the report printed only after every submitted
\* task has completed; past the barrier no step writes the aggregator; a
\* submission happens only after start_time was taken.
EveryTaskCompleted ==
    /\ Len(futures) = num_requests
    /\ \A k \in DOMAIN futures : futures[k].state = "FINISHED"
    /\ work_queue = <<>>
    /\ \A th \in BagToSet(threads) : th.pc = "idle"

C4_BarrierState ==
    /\ (end_time # NoTime \/ pc \in {"print", "done"}) => EveryTaskCompleted
    /\ futures # <<>> => start_time # NoTime /\ start_time[1] < now
    /\ end_time # NoTime => start_time # NoTime /\ start_time[1] < end_time[1]

C4_BarrierStep ==
    /\ PastBarrier => PastBarrier' /\ UNCHANGED <<aggregator, futures, threads>>
    /\ (Len(futures') > Len(futures)) => start_time # NoTime

C4_Barrier == []C4_BarrierState /\ [][C4_BarrierStep]_vars

C4_Witness ==
    /\ pc = "done"
    /\ num_requests = 3
    /\ end_time # NoTime
    /\ Len(response_times) = 2
    /\ Len(errors) = 1

(* ---------------------------- liveness -------------------------------- *)
\* The scheduler lets run() and the pool's threads go on while they can, and
\* every GET is answered or raises (requests.get has timeout=10).
LiveInit == Init /\ num_requests <= MaxLiveRequests

FairSpec == LiveInit /\ [][Next]_vars /\ WF_vars(MainStep) /\ WF_vars(WorkerStep)

\* what print_results has printed: the lines after the separator of line 90
PrintedReport ==
    LET k == CHOOSE j \in DOMAIN stdout :
                 /\ stdout[j] = Separator
                 /\ \A m \in DOMAIN stdout : m > j => stdout[m] # Separator
    IN  SubSeq(stdout, k + 1, Len(stdout))

ReportHas(line) == \E k \in DOMAIN PrintedReport : PrintedReport[k] = line

\* C5: under fair scheduling every run passes the wait barrier with all
\* num_requests tasks completed and prints the report or the message "No
\* successful requests were made.", however many requests fail.
C5_RunCompletes ==
    <>( /\ pc = "done"
        /\ EveryTaskCompleted
        /\ \/ PrintedReport = <<NoSuccessLine>>
           \/ PrintedReport[1] = <<"Load Test Results:">> )

\* a run in which every request failed has printed the message
C5_Witness ==
    /\ pc = "done"
    /\ num_requests = 2
    /\ Cardinality(FailedIds) = 2
    /\ PrintedReport = <<NoSuccessLine>>

(* ------------------------- failures and effects ----------------------- *)
\* the threads that have appended an error and not yet returned
Returning == {th \in BagToSet(threads) : th.pc = "ret" /\ th.error # ""}

\* C6: a request whose GET raises ends as a normal return with a failure
\* result whose message is in errors; no future ever holds an exception; no
\* thread of the pool is lost; past the barrier every request has a result.
C6_FailureState ==
    /\ \A k \in DOMAIN futures : futures[k].exception = None
    /\ \A k \in DOMAIN futures :
          futures[k].state = "FINISHED" =>
              /\ futures[k].result.id = k - 1
              /\ ~futures[k].result.success =>
                     \E j \in DOMAIN errors : errors[j] = futures[k].result.error
    /\ Len(errors) = Cardinality(FailedIds) + Cardinality(Returning)
    /\ PastBarrier => Cardinality(FailedIds) + Cardinality(AnsweredIds) = num_requests

C6_FailureStep == BagCardinality(threads') >= BagCardinality(threads)

C6_FailureContained == []C6_FailureState /\ [][C6_FailureStep]_vars

\* one thread: request 0 fails, and the same thread then serves request 1
C6_Witness ==
    /\ pc = "done"
    /\ num_threads = 1
    /\ num_requests = 2
    /\ FailedIds = {0}
    /\ AnsweredIds = {1}

\* list `new` is list `old` with exactly one entry appended
OneAppended(old, new) == Len(new) = Len(old) + 1 /\ SubSeq(new, 1, Len(old)) = old

\* dict `new` is dict `old` with exactly 1 added to the count of one code
OneCounted(old, new) ==
    \E c \in StatusCodes :
        /\ DOMAIN new = DOMAIN old \cup {c}
        /\ new[c] = (IF c \in DOMAIN old THEN old[c] ELSE 0) + 1
        /\ \A x \in DOMAIN old : x # c => new[x] = old[x]

\* C7: every step of a send_request that writes the aggregator appends one
\* elapsed time, or adds exactly 1 to the count of one status code, or appends
\* one error message, and leaves the rest of the aggregator unchanged.
C7_OneOutcomeStep ==
    \/ UNCHANGED aggregator
    \/ OneAppended(response_times, response_times') /\ UNCHANGED <<status_codes, errors>>
    \/ OneCounted(status_codes, status_codes') /\ UNCHANGED <<response_times, errors>>
    \/ OneAppended(errors, errors') /\ UNCHANGED <<response_times, status_codes>>

C7_ExactlyOneOutcome == [][C7_OneOutcomeStep]_vars

(* ----------------------------- dispatch ------------------------------- *)
\* C8: the futures are those of the request ids 0, 1, 2, ... in this order,
\* at most num_requests of them and all of them once the loop is left; one
\* sleep follows each submission; no request id is sent a second time.
C8_SubmissionOrder ==
    /\ \A k \in DOMAIN futures : futures[k].id = k - 1
    /\ Len(futures) <= num_requests
    /\ i = Len(futures) - 1
    /\ pc \notin {"run", "for", "sleep", "progress"} => Len(futures) = num_requests
    /\ sleeps = IF pc = "sleep" THEN Len(futures) - 1 ELSE Len(futures)
    /\ \A id \in DOMAIN attempts : attempts[id] <= 1
    /\ PastBarrier => \A id \in DOMAIN attempts : attempts[id] = 1

\* three requests were submitted and sent once each though one of them failed
C8_Witness ==
    /\ pc = "done"
    /\ num_requests = 3
    /\ sleeps = 3
    /\ FailedIds # {}
    /\ \A id \in 0..2 : attempts[id] = 1

\* C9: with num_requests = 0 nothing is submitted or sent, the wait barrier
\* is passed at once, the aggregator stays empty, and the report is exactly
\* the line "No successful requests were made."
C9_ZeroRequests ==
    num_requests = 0 =>
        /\ futures = <<>>
        /\ threads = EmptyBag
        /\ work_queue = <<>>
        /\ DOMAIN attempts = {}
        /\ sleeps = 0
        /\ response_times = <<>> /\ status_codes = EmptyDict /\ errors = <<>>
        /\ pc = "wait" => ENABLED WaitBarrier
        /\ pc = "done" => PrintedReport = <<NoSuccessLine>>

C9_Witness == num_requests = 0 /\ pc = "done" /\ PrintedReport = <<NoSuccessLine>>

(* ------------------------------ report -------------------------------- *)
\* the counts of the error histogram printed, added up
RECURSIVE HistogramTotal(_)
HistogramTotal(lines) ==
    IF lines = <<>> THEN 0
    ELSE (IF Head(lines)[1] = "Error" THEN Head(lines)[3] ELSE 0)
         + HistogramTotal(Tail(lines))

FailuresSurface ==
    /\ ReportHas(<<"Failed Requests", Cardinality(FailedIds)>>)
    /\ ReportHas(<<"Error Types", Cardinality(FailedIds)>>)
    /\ HistogramTotal(PrintedReport) = Cardinality(FailedIds)

\* C10 as stated: in every completed run with a failed request the report
\* has the failed-request count and an error histogram that totals it.
C10_Original == pc = "done" /\ FailedIds # {} => FailuresSurface

\* C10 amended: so it is when also some request was answered; when none was,
\* the report is only the line "No successful requests were made.".
C10_FailuresSurface ==
    pc = "done" /\ FailedIds # {} =>
        IF AnsweredIds # {} THEN FailuresSurface
        ELSE PrintedReport = <<NoSuccessLine>>

C10_Witness ==
    /\ pc = "done"
    /\ Cardinality(FailedIds) = 2
    /\ Cardinality(AnsweredIds) = 1
    /\ FailuresSurface

\* C11: print_results prints the statistics exactly when response_times is
\* not empty; when it is empty the report is only the line "No successful
\* requests were made.", whatever errors holds.
C11_ReportBranch ==
    pc = "done" =>
        /\ response_times = <<>> <=> PrintedReport = <<NoSuccessLine>>
        /\ response_times # <<>> <=>
               /\ PrintedReport[1] = <<"Load Test Results:">>
               /\ ReportHas(<<"Response Time Statistics (seconds):">>)
               /\ ReportHas(<<"Successful Requests", Len(response_times)>>)

\* every request failed: errors is not empty, and only the message is printed
C11_Witness ==
    /\ pc = "done"
    /\ response_times = <<>>
    /\ Len(errors) = 3
    /\ PrintedReport = <<NoSuccessLine>>

\* C14: no step shortens response_times or errors, lowers a count of
\* status_codes, or removes one of its keys.
C14_GrowStep ==
    /\ Len(response_times') >= Len(response_times)
    /\ Len(errors') >= Len(errors)
    /\ \A c \in DOMAIN status_codes :
           c \in DOMAIN status_codes' /\ status_codes'[c] >= status_codes[c]

C14_OnlyGrows == [][C14_GrowStep]_vars

\* the lines of the error histogram printed
IsErrorLine(line) == line[1] = "Error"
HistogramPrinted == SelectSeq(PrintedReport, IsErrorLine)

\* the place of an error message in the lexical order of the messages
LexRank(m) ==
    CASE m = "Connection refused" -> 1
      [] m = "Read timed out." -> 2
      [] OTHER -> 3

\* C15: the histogram printed has one line for each distinct message of
\* errors, with the number of its occurrences, in descending order of that
\* number, lines of equal number in the lexical order of their messages.
C15_HistogramOrder ==
    (pc = "done" /\ response_times # <<>>) =>
        LET h == HistogramPrinted
            msgs == {errors[k] : k \in DOMAIN errors}
        IN  /\ Len(h) = Cardinality(msgs)
            /\ \A m \in msgs : \E j \in DOMAIN h :
                   /\ h[j][2] = m
                   /\ h[j][3] = Cardinality({k \in DOMAIN errors : errors[k] = m})
            /\ \A j \in 1..(Len(h) - 1) :
                   \/ h[j][3] > h[j + 1][3]
                   \/ /\ h[j][3] = h[j + 1][3]
                      /\ LexRank(h[j][2]) < LexRank(h[j + 1][2])

(* ---------------------- the aggregator's bounds ---------------------- *)
\* the sum of the counts of status_codes
RECURSIVE SumStored(_)
SumStored(codes) ==
    IF codes = {} THEN 0
    ELSE LET c == CHOOSE x \in codes : TRUE
         IN  status_codes[c] + SumStored(codes \ {c})

\* C17: in every state the counts of status_codes sum to at most
\* len(response_times), and len(response_times) + len(errors) is at most the
\* number of tasks submitted so far, which is at most num_requests.
C17_NeverOverCounts ==
    /\ SumStored(DOMAIN status_codes) <= Len(response_times)
    /\ Len(response_times) + Len(errors) <= Len(futures)
    /\ Len(futures) <= num_requests

\* mid-run, one task answered and counted, one failed, one not yet submitted
C17_Witness ==
    /\ pc = "sleep"
    /\ num_requests = 3
    /\ Len(futures) = 2
    /\ Len(response_times) = 1
    /\ Len(errors) = 1
    /\ SumStored(DOMAIN status_codes) = 1

(* ------------------------- order of execution ------------------------ *)
\* the request ids a pool thread has taken from the queue, and those whose
\* send_request has begun
TakenIds == {id \in DOMAIN attempts : id < Len(futures) /\ futures[id + 1].state # "PENDING"}
BegunIds == {id \in DOMAIN attempts : attempts[id] >= 1}

\* C18 as stated: task j never begins send_request before every task i < j
\* has begun; each task begins at most once and not before its submission.
\* (Violated: two pool threads take tasks 0 and 1 in order, and the thread
\* holding task 1 enters send_request first.)
C18_BeginInOrder ==
    /\ \A j \in BegunIds : \A k \in 0..(j - 1) : k \in BegunIds
    /\ \A id \in BegunIds : attempts[id] = 1 /\ id < Len(futures)

\* C18 amended: the tasks are taken from the queue in submission order, the
\* queue holds the submitted tasks not yet taken in that order, each task
\* begins send_request at most once (exactly once by the barrier), only after
\* a thread took it, hence after its submission; with one pool thread the
\* tasks also begin in submission order.
C18_TakenInOrder ==
    /\ \A j \in TakenIds : \A k \in 0..(j - 1) : k \in TakenIds
    /\ \A k \in DOMAIN work_queue :
           work_queue[k] = Cardinality(TakenIds) + k - 1
    /\ Cardinality(TakenIds) + Len(work_queue) = Len(futures)
    /\ \A id \in BegunIds : attempts[id] = 1 /\ id \in TakenIds
    /\ PastBarrier => BegunIds = DOMAIN attempts
    /\ num_threads = 1 => \A j \in BegunIds : \A k \in 0..(j - 1) : k \in BegunIds

\* task 1 has begun send_request while task 0, taken before it, has not;
\* task 2 waits in the queue
C18_Witness ==
    /\ 1 \in BegunIds
    /\ 0 \in TakenIds \ BegunIds
    /\ work_queue = <<2>>

(* ------------------------ the percentages printed -------------------- *)
\* the status lines of the report printed
IsStatusLine(line) == line[1] = "Status"
StatusPrinted == SelectSeq(PrintedReport, IsStatusLine)

ProgressInit ==
    /\ num_threads = 1
    /\ num_requests \in 0..MaxProgressRequests
    /\ interval \in Intervals
    /\ response_times = <<>>
    /\ status_codes = EmptyDict
    /\ errors = <<>>
    /\ start_time = NoTime
    /\ end_time = NoTime
    /\ pc = "run"
    /\ i = -1
    /\ futures = <<>>
    /\ work_queue = <<>>
    /\ threads = EmptyBag
    /\ idle_semaphore = 0
    /\ now = 0
    /\ attempts = [id \in 0..(num_requests - 1) |-> 0]
    /\ sleeps = 0
    /\ stdout = <<>>
    /\ response = None

ProgressNext ==
    \/ MainStep
    \/ \E th \in BagToSet(threads) : Take(th)
    \/ \E th \in BagToSet(threads) : Begin(th)
    \/ \E th \in BagToSet(threads), d \in Elapsed : Respond(th, 200, d)
    \/ \E th \in BagToSet(threads) : CheckCode(th)
    \/ \E th \in BagToSet(threads) : LoadCount(th)
    \/ \E th \in BagToSet(threads) : StoreCount(th)
    \/ \E th \in BagToSet(threads) : SetOne(th)
    \/ \E th \in BagToSet(threads) : Return(th)

ProgressSpec == ProgressInit /\ [][ProgressNext]_vars

\* the progress lines printed
IsProgressLine(line) == line[1] = "Progress"
ProgressPrinted == SelectSeq(stdout, IsProgressLine)

\* iterations of the loop of run() that have come to their end
IterationsDone == IF pc \in {"sleep", "progress"} THEN Len(futures) - 1 ELSE Len(futures)

\* C16: the progress lines printed are k/N for exactly the k up to the
\* iterations done with k divisible by 10 or k = N, once each, in increasing
\* k, and none claims more submissions than have been made.
C16_ProgressLines ==
    LET P == ProgressPrinted
        due == {k \in 1..IterationsDone : k % 10 = 0 \/ k = num_requests}
    IN  /\ Len(P) = Cardinality(due)
        /\ \A j \in DOMAIN P :
               /\ P[j][2] \in due
               /\ P[j][3] = num_requests
               /\ P[j][2] <= Len(futures)
               /\ j > 1 => P[j - 1][2] < P[j][2]
        /\ pc \in {"wait", "end", "print", "done"} => IterationsDone = num_requests

C16_Witness ==
    /\ pc = "done"
    /\ num_requests = 21
    /\ ProgressPrinted = << <<"Progress", 10, 21>>, <<"Progress", 20, 21>>,
                            <<"Progress", 21, 21>> >>

(* ------------------------- run() called again ------------------------ *)
\* calls of run() so far: each prints the header of line 69
RunsStarted == Cardinality({k \in DOMAIN stdout : stdout[k] = <<"Starting load test">>})

\* run() has returned and its caller calls it again on the same LoadTester:
\* the locals of run() and the executor are new, the attributes set by
\* __init__ (lines 31-35) are as the previous run left them
RunAgain ==
    /\ pc = "done"
    /\ RunsStarted < MaxRuns
    /\ pc' = "run"
    /\ i' = -1
    /\ futures' = <<>>
    /\ work_queue' = <<>>
    /\ threads' = EmptyBag
    /\ idle_semaphore' = 0
    /\ attempts' = [id \in DOMAIN attempts |-> 0]
    /\ UNCHANGED <<response, config, aggregator, start_time, end_time, now, sleeps,
                   stdout>>

RerunInit == Init /\ num_requests <= MaxRerunRequests

RerunNext == Next \/ RunAgain

RerunSpec == RerunInit /\ [][RerunNext]_vars

\* C13: whenever run() begins, also when it is called a second time on the
\* same LoadTester, response_times, status_codes and errors are empty, and
\* past the barrier of each run the outcomes recorded number num_requests.
C13_EmptyAtRunStart ==
    /\ pc = "run" =>
           response_times = <<>> /\ status_codes = EmptyDict /\ errors = <<>>
    /\ PastBarrier => Len(response_times) + Len(errors) = num_requests

(* ------------------------------- CLI ---------------------------------- *)
\* nothing of a run has happened: no header, no submission, no GET
NothingSent ==
    /\ start_time = NoTime
    /\ futures = <<>>
    /\ threads = EmptyBag
    /\ \A id \in DOMAIN attempts : attempts[id] = 0
    /\ response_times = <<>> /\ errors = <<>>

Asked == Len(stdout) >= 1 /\ stdout[1] = WarningLine

\* C12: with --threads > 50 the warning and the prompt come before anything
\* is sent, and every answer but y or Y ends main() with the abort message
\* and nothing sent; with --threads <= 50 nothing is asked and run() starts.
C12_GateState ==
    /\ num_threads > 50 =>
          /\ pc # "main" => Asked
          /\ pc \in {"main", "prompt"} => response = None /\ NothingSent
          /\ pc \notin {"main", "prompt"} => response \in Answers
          /\ (response # None /\ response \notin {"y", "Y"}) =>
                 /\ pc = "aborted"
                 /\ stdout = <<WarningLine, PromptLine, AbortLine>>
                 /\ NothingSent
          /\ response \in {"y", "Y"} => pc # "aborted"
          /\ ~NothingSent => response \in {"y", "Y"}
    /\ num_threads <= 50 =>
          /\ response = None
          /\ pc \notin {"prompt", "aborted"}
          /\ \A k \in DOMAIN stdout :
                 stdout[k] \notin {WarningLine, PromptLine, AbortLine}

C12_GateStep ==
    /\ (pc = "main" /\ num_threads <= 50) => pc' = "run"
    /\ (pc = "main" /\ num_threads > 50) => pc' = "prompt"
    /\ pc = "aborted" => UNCHANGED vars

C12_SafetyGate == []C12_GateState /\ [][C12_GateStep]_vars

\* 51 threads and the answer "yes": aborted, nothing sent
C12_Witness ==
    /\ num_threads = 51
    /\ num_requests = 2
    /\ response = "yes"
    /\ pc = "aborted"
    /\ NothingSent

====
